---------------------------- MODULE Spec2Model ----------------------------
(***************************************************************************)
(* Lineup generation of the multisport lineup app: the feasibility checker *)
(* and the smart assignment engine of sports/utils/lineup_utils.py, and    *)
(* the baseball and volleyball generators that drive them period by        *)
(* period.                                                                 *)
(***************************************************************************)
EXTENDS Integers, Sequences, FiniteSets, TLC

VARIABLES
    sport,             \* which generator instance runs generate()
    players,           \* generate()'s players argument
    game_info,         \* generate()'s game_info argument (a dict)
    player_history,    \* the caller's player_history argument (a dict)
    position_history,  \* generate()'s local position_history
    pitcher_history,   \* generate()'s local pitcher_history (baseball)
    bench_tracker,     \* generate()'s local bench_tracker
    lineups,           \* generate()'s local list of lineups
    period,            \* the loop variable of generate()
    pc,                \* "start", "loop", "done" or "error"
    error,             \* which ValueError ended the call ("" when none)
    returned,          \* the list generate() returned (<<>> unless pc = "done")
    u_players,         \* a direct call of lineup_utils: the player pool
    u_positions,       \* ... the position ids
    u_must,            \* ... the must-play players
    u_history,         \* ... the position history
    u_pc,              \* "ready" or "called"
    u_feasible,        \* what can_fill_all_positions returned
    u_result,          \* what assign_positions_smart returned or raised
    u_ranked,          \* a position and its candidates as the engine sorts them
    f_sport_id,        \* a call of the factory: the sport_id argument
    f_pc,              \* "ready", "got" or "checked"
    f_result,          \* what get_lineup_generator returned or raised
    f_supported,       \* what is_sport_supported returned
    instance,          \* two calls on one generator: the generator instance
    calls,             \* ... each call's arguments, position and result
    store              \* ... each frame's tracking dictionaries

gen_vars == <<sport, players, game_info, player_history, position_history,
              pitcher_history, bench_tracker, lineups, period, pc, error,
              returned>>
util_vars == <<u_players, u_positions, u_must, u_history, u_pc, u_feasible,
               u_result, u_ranked>>
fac_vars == <<f_sport_id, f_pc, f_result, f_supported>>
two_vars == <<instance, calls, store>>
vars == <<gen_vars, util_vars, fac_vars, two_vars>>

---------------------------------------------------------------------------
(* Bounds of the model. *)

MaxAnyBench == 9
MaxAnyPeriods == 4
MaxBench == 1
MaxPad == 1
MaxPeriods == 3
MaxPlayed == 2
MaxPool == 3
MaxPositions == 3
MaxRankPool == 3

---------------------------------------------------------------------------
(* Python lists and dicts. *)

EmptyDict == [k \in {} |-> k]

DictSet(d, k, v) == [x \in (DOMAIN d) \cup {k} |-> IF x = k THEN v ELSE d[x]]

DictGet(d, k, default) == IF k \in DOMAIN d THEN d[k] ELSE default

InList(x, s) == \E i \in 1..Len(s) : s[i] = x

Count(s, x) == Cardinality({i \in 1..Len(s) : s[i] = x})

\* variant: the chosen player stays in the pool
remove_nothing(s, x) == s

\* list.remove(x): drops the first element equal to x
RemoveFirst(s, x) ==
    LET i == CHOOSE k \in 1..Len(s) :
                 s[k] = x /\ \A j \in 1..(k - 1) : s[j] # x
    IN [k \in 1..(Len(s) - 1) |-> IF k < i THEN s[k] ELSE s[k + 1]]

KeyLess(a, b) == a[1] < b[1] \/ (a[1] = b[1] /\ a[2] < b[2])

\* list.sort(key=...) on <<key, element>> pairs, keys being pairs of numbers:
\* the stable ascending sort, as an insertion sort
RECURSIVE InsertByKey(_, _)
InsertByKey(sorted, x) ==
    IF sorted = <<>>
    THEN <<x>>
    ELSE IF KeyLess(x[1], Head(sorted)[1])
    THEN <<x>> \o sorted
    ELSE <<Head(sorted)>> \o InsertByKey(Tail(sorted), x)

RECURSIVE SortByKey(_)
SortByKey(pairs) ==
    IF pairs = <<>>
    THEN <<>>
    ELSE InsertByKey(SortByKey(SubSeq(pairs, 1, Len(pairs) - 1)),
                     pairs[Len(pairs)])

Keyed(s, keys) == [i \in 1..Len(s) |-> <<keys[i], s[i]>>]

RECURSIVE Unkeyed(_)
Unkeyed(pairs) ==
    IF pairs = <<>> THEN <<>> ELSE <<Head(pairs)[2]>> \o Unkeyed(Tail(pairs))

---------------------------------------------------------------------------
(* sports/models/lineup.py *)

Player(id, position_preferences) ==
    [id |-> id, name |-> "N", position_preferences |-> position_preferences]

\* variant: a player can play the listed positions only
can_play_listed_only(player, position_id) ==
    InList(position_id, player.position_preferences)

can_play_position(player, position_id) ==
    IF player.position_preferences = <<>>
    THEN TRUE
    ELSE InList(position_id, player.position_preferences)

PositionAssignment(player, position) ==
    [player |-> player, position |-> position]

Lineup(p, assignments, bench_players) ==
    [period |-> p, assignments |-> assignments, bench_players |-> bench_players]

---------------------------------------------------------------------------
(* sports/utils/lineup_utils.py *)

\* can_fill_all_positions with its recursion argument: assignments is a dict
\* keyed by position id
RECURSIVE can_fill_rec(_, _, _)
can_fill_rec(ps, position_ids, assignments) ==
    IF position_ids = <<>>
    THEN TRUE
    ELSE LET position == Head(position_ids)
             remaining_positions == Tail(position_ids)
         IN \E i \in 1..Len(ps) :
                /\ ~(\E k \in DOMAIN assignments : assignments[k] = ps[i].id)
                /\ can_play_position(ps[i], position)
                /\ can_fill_rec(ps, remaining_positions,
                                DictSet(assignments, position, ps[i].id))

can_fill_all_positions(ps, position_ids) ==
    can_fill_rec(ps, position_ids, EmptyDict)

\* variant: every player is a candidate for every position
candidates_unfiltered(position, ps) == ps

get_candidates_for_position(position, ps) ==
    SelectSeq(ps, LAMBDA p : can_play_position(p, position))

\* variant: the (position, candidate count) tuples are left in input order
position_scarcity_unsorted(positions, ps) ==
    [i \in 1..Len(positions) |->
        <<positions[i], Len(get_candidates_for_position(positions[i], ps))>>]

\* the (position, candidate count) tuples, sorted by count
calculate_position_scarcity(positions, ps) ==
    LET count(pos) == Len(get_candidates_for_position(pos, ps))
        keys == [i \in 1..Len(positions) |-> <<count(positions[i]), 0>>]
        sorted == SortByKey(Keyed(positions, keys))
    IN [i \in 1..Len(sorted) |-> <<sorted[i][2], sorted[i][1][1]>>]

AnyPositionFlexibility == 99

\* variant: the candidates are ranked by their number of preferences alone
sort_key_flexibility_only(player, position_id, history) ==
    <<0, IF player.position_preferences # <<>>
         THEN Len(player.position_preferences)
         ELSE AnyPositionFlexibility>>

candidate_sort_key(player, position_id, history) ==
    LET position_count ==
            IF player.id \in DOMAIN history
            THEN Count(history[player.id], position_id)
            ELSE 0
        flexibility ==
            IF player.position_preferences # <<>>
            THEN Len(player.position_preferences)
            ELSE AnyPositionFlexibility
    IN <<position_count, flexibility>>

sort_candidates(candidates, position_id, history) ==
    LET keys == [i \in 1..Len(candidates) |->
                     candidate_sort_key(candidates[i], position_id, history)]
    IN Unkeyed(SortByKey(Keyed(candidates, keys)))

\* the positions the look-ahead asks the feasibility checker about
lookahead_positions(position_scarcity, position) ==
    LET others == SelectSeq(position_scarcity, LAMBDA t : t[1] # position)
    IN [i \in 1..Len(others) |-> others[i][1]]

lookahead_ok(candidate, remaining_players, position_scarcity, position) ==
    LET temp_remaining == SelectSeq(remaining_players,
                                    LAMBDA p : p.id # candidate.id)
        remaining_position_ids == lookahead_positions(position_scarcity, position)
    IN remaining_position_ids = <<>>
       \/ can_fill_all_positions(temp_remaining, remaining_position_ids)

\* the index of the first candidate from index i on that passes the look-ahead,
\* 0 when none does
RECURSIVE first_passing(_, _, _, _, _)
first_passing(candidates, i, remaining_players, position_scarcity, position) ==
    IF i > Len(candidates)
    THEN 0
    ELSE IF lookahead_ok(candidates[i], remaining_players, position_scarcity,
                         position)
    THEN i
    ELSE first_passing(candidates, i + 1, remaining_players, position_scarcity,
                       position)

choose_player(candidates, remaining_players, position_scarcity, position) ==
    LET i == first_passing(candidates, 1, remaining_players, position_scarcity,
                           position)
    IN IF i # 0 THEN candidates[i] ELSE candidates[1]

\* variant: must-play players get no priority
prioritize_nobody(candidates, must_play_players) == candidates

prioritize_must_play(candidates, must_play_players) ==
    LET must_play_candidates ==
            SelectSeq(candidates, LAMBDA p : InList(p, must_play_players))
    IN IF must_play_candidates # <<>> THEN must_play_candidates ELSE candidates

\* the loop of assign_positions_smart over position_scarcity, from index idx
RECURSIVE assign_loop(_, _, _, _, _, _)
assign_loop(position_scarcity, idx, remaining_players, assignments, must_play_players, history) ==
    IF idx > Len(position_scarcity)
    THEN [ok |-> TRUE, error |-> "", assignments |-> assignments]
    ELSE LET position == position_scarcity[idx][1]
             candidates ==
                 sort_candidates(
                     prioritize_must_play(
                         get_candidates_for_position(position, remaining_players),
                         must_play_players),
                     position, history)
         IN IF candidates = <<>>
            THEN [ok |-> FALSE, error |-> "no_candidates",
                  assignments |-> <<>>]
            ELSE LET chosen_player ==
                         choose_player(candidates, remaining_players,
                                       position_scarcity, position)
                 IN assign_loop(position_scarcity, idx + 1,
                                RemoveFirst(remaining_players, chosen_player),
                                Append(assignments,
                                       PositionAssignment(chosen_player, position)),
                                must_play_players, history)

assign_positions_smart(available_players, available_positions, must_play_players, history) ==
    IF ~can_fill_all_positions(available_players, available_positions)
    THEN [ok |-> FALSE, error |-> "cannot_fill", assignments |-> <<>>]
    ELSE assign_loop(calculate_position_scarcity(available_positions,
                                                 available_players),
                     1, available_players, <<>>, must_play_players, history)

\* variant: a player's entry holds the latest position only
track_latest_position_only(assignments, history) ==
    LET ids == {assignments[i].player.id : i \in 1..Len(assignments)}
    IN [id \in (DOMAIN history) \cup ids |->
           IF id \in ids
           THEN <<assignments[CHOOSE i \in 1..Len(assignments) :
                                  assignments[i].player.id = id].position>>
           ELSE history[id]]

\* track_player_position_history: the history dict after the in-place update
RECURSIVE track_player_position_history(_, _)
track_player_position_history(assignments, history) ==
    IF assignments = <<>>
    THEN history
    ELSE LET a == Head(assignments)
             old == DictGet(history, a.player.id, <<>>)
         IN track_player_position_history(
                Tail(assignments),
                DictSet(history, a.player.id, Append(old, a.position)))

---------------------------------------------------------------------------
(* The sport configurations the generators are constructed with. *)

baseball_config ==
    [positions |-> <<"P", "C", "1B", "2B", "3B", "SS", "LF", "CF", "RF">>,
     required_positions |-> <<"P", "C">>,
     total_positions |-> 9]

volleyball_config ==
    [positions |-> <<"S", "OH", "MB", "OPP", "L", "DS">>,
     required_positions |-> <<"S">>,
     total_positions |-> 6]

---------------------------------------------------------------------------
(* sports/generators/base.py *)

\* Lineup.validate_no_duplicates (sports/models/lineup.py)
validate_no_duplicates(lineup) ==
    LET player_ids == [i \in 1..Len(lineup.assignments) |->
                          lineup.assignments[i].player.id]
        duplicates == {player_ids[i] : i \in {i \in 1..Len(player_ids) :
                          \E j \in 1..(i - 1) : player_ids[j] = player_ids[i]}}
    IN IF duplicates # {} THEN << <<"duplicates", duplicates>> >> ELSE <<>>

validate_lineup(config, lineup) ==
    LET assigned_positions == {lineup.assignments[i].position :
                                   i \in 1..Len(lineup.assignments)}
        missing == SelectSeq(config.required_positions,
                             LAMBDA req_pos : req_pos \notin assigned_positions)
        misplaced == SelectSeq(lineup.assignments,
                               LAMBDA a : ~can_play_position(a.player, a.position))
    IN (IF Len(lineup.assignments) # config.total_positions
        THEN << <<"incomplete", Len(lineup.assignments)>> >>
        ELSE <<>>)
       \o [i \in 1..Len(missing) |-> <<"not_assigned", missing[i]>>]
       \o validate_no_duplicates(lineup)
       \o [i \in 1..Len(misplaced) |->
              <<"cannot_play", misplaced[i].player.id, misplaced[i].position>>]

validate_game_info(gi) ==
    SelectSeq(<<"game_id", "team_id">>, LAMBDA f : f \notin DOMAIN gi)

RECURSIVE player_data_errors(_, _)
player_data_errors(ps, i) ==
    IF i > Len(ps)
    THEN <<>>
    ELSE (IF ps[i].id = "" THEN << <<"missing_id", i>> >> ELSE <<>>)
         \o (IF ps[i].name = "" THEN << <<"missing_name", i>> >> ELSE <<>>)
         \o player_data_errors(ps, i + 1)

\* variant: the roster is checked for size and player data only
validate_players_unstaffed(config, ps) ==
    (IF Len(ps) < config.total_positions
     THEN << <<"insufficient", Len(ps)>> >>
     ELSE <<>>)
    \o player_data_errors(ps, 1)

validate_players(config, ps) ==
    LET unstaffed == SelectSeq(config.required_positions,
                               LAMBDA req_pos :
                                   ~\E i \in 1..Len(ps) :
                                        can_play_position(ps[i], req_pos))
    IN (IF Len(ps) < config.total_positions
        THEN << <<"insufficient", Len(ps)>> >>
        ELSE <<>>)
       \o player_data_errors(ps, 1)
       \o [i \in 1..Len(unstaffed) |-> <<"no_player_for", unstaffed[i]>>]

---------------------------------------------------------------------------
(* sports/generators/baseball.py *)

DefaultNumPeriods == 3

num_periods(gi) == DictGet(gi, "num_periods", DefaultNumPeriods)

\* variant: the previous period's pitcher stays eligible
get_eligible_pitchers_no_rest(ps, pitchers, current_period) ==
    SelectSeq(ps, LAMBDA p : can_play_position(p, "P"))

get_eligible_pitchers(ps, pitchers, current_period) ==
    SelectSeq(ps, LAMBDA p :
        /\ can_play_position(p, "P")
        /\ \/ current_period = 1
           \/ ~InList(current_period - 1, DictGet(pitchers, p.id, <<>>)))

\* variant: one period on the bench makes a must-play player
get_must_play_after_one(ps, bench, current_period) ==
    IF current_period = 1
    THEN <<>>
    ELSE SelectSeq(ps, LAMBDA p : DictGet(bench, p.id, 0) >= 1)

\* variant: nobody is ever a must-play player
get_must_play_nobody(ps, bench, current_period) == <<>>

get_must_play_players(ps, bench, current_period) ==
    IF current_period = 1
    THEN <<>>
    ELSE SelectSeq(ps, LAMBDA p : DictGet(bench, p.id, 0) >= 2)

\* the copy of one player in the period's filtered_players
filter_player(player, eligible_pitcher_ids) ==
    IF can_play_position(player, "P") /\ player.id \notin eligible_pitcher_ids
    THEN LET modified_prefs == SelectSeq(player.position_preferences,
                                         LAMBDA pos : pos # "P")
             all_non_p_positions == SelectSeq(baseball_config.positions,
                                              LAMBDA pos : pos # "P")
         IN IF modified_prefs = <<>> /\ player.position_preferences = <<"P">>
            THEN [player EXCEPT !.position_preferences = all_non_p_positions]
            ELSE [player EXCEPT !.position_preferences = modified_prefs]
    ELSE player

filtered_players(ps, pitchers, current_period) ==
    LET eligible_pitchers == get_eligible_pitchers(ps, pitchers, current_period)
        eligible_pitcher_ids == {eligible_pitchers[i].id :
                                     i \in 1..Len(eligible_pitchers)}
    IN [i \in 1..Len(ps) |-> filter_player(ps[i], eligible_pitcher_ids)]

assigned_player_ids(assignments) ==
    {assignments[i].player.id : i \in 1..Len(assignments)}

\* variant: every player is listed on the bench
bench_everyone(ps, assignments) == ps

bench_of(ps, assignments) ==
    SelectSeq(ps, LAMBDA p : p.id \notin assigned_player_ids(assignments))

generate_period_lineup(current_period, ps, history, pitchers, bench) ==
    IF get_eligible_pitchers(ps, pitchers, current_period) = <<>>
    THEN [ok |-> FALSE, error |-> "no_eligible_pitchers"]
    ELSE LET r == assign_positions_smart(
                      filtered_players(ps, pitchers, current_period),
                      baseball_config.positions,
                      get_must_play_players(ps, bench, current_period),
                      history)
         IN IF ~r.ok
            THEN [ok |-> FALSE, error |-> r.error]
            ELSE IF Len(r.assignments) # Len(baseball_config.positions)
            THEN [ok |-> FALSE, error |-> "not_all_assigned"]
            ELSE [ok |-> TRUE, error |-> "",
                  lineup |-> Lineup(current_period, r.assignments,
                                    bench_of(ps, r.assignments))]

RECURSIVE update_pitcher_history(_, _, _)
update_pitcher_history(assignments, current_period, pitchers) ==
    IF assignments = <<>>
    THEN pitchers
    ELSE LET a == Head(assignments)
         IN update_pitcher_history(
                Tail(assignments), current_period,
                IF a.position = "P"
                THEN DictSet(pitchers, a.player.id,
                             Append(DictGet(pitchers, a.player.id, <<>>),
                                    current_period))
                ELSE pitchers)

\* variant: the count of a player who plays is left as it is
bench_tracker_never_reset(assignments, ps, bench) ==
    [id \in DOMAIN bench |->
        IF id \in assigned_player_ids(assignments)
        THEN bench[id]
        ELSE bench[id] + 1]

RECURSIVE update_bench_tracker(_, _, _)
update_bench_tracker(assignments, ps, bench) ==
    IF ps = <<>>
    THEN bench
    ELSE LET id == Head(ps).id
         IN update_bench_tracker(
                assignments, Tail(ps),
                IF id \in assigned_player_ids(assignments)
                THEN DictSet(bench, id, 0)
                ELSE DictSet(bench, id, bench[id] + 1))

---------------------------------------------------------------------------
(* sports/generators/volleyball.py *)

\* variant: the set count is read from the num_periods key
num_sets_from_num_periods(gi) == DictGet(gi, "num_periods", DefaultNumPeriods)

num_sets(gi) == DictGet(gi, "num_sets", DefaultNumPeriods)

\* variant: a third outside hitter replaces a middle blocker
get_required_positions_three_oh(config) ==
    <<"S", "OH", "OH", "OH", "MB", "OPP">>

\* variant: the sixth slot is left out
get_required_positions_five(config) == <<"S", "OH", "OH", "MB", "MB">>

get_required_positions(config) ==
    LET has(id) == InList(id, config.positions)
    IN (IF has("S") THEN <<"S">> ELSE <<>>)
       \o (IF has("OH") THEN <<"OH", "OH">> ELSE <<>>)
       \o (IF has("MB") THEN <<"MB", "MB">> ELSE <<>>)
       \o (IF has("OPP") THEN <<"OPP">>
           ELSE IF has("L") THEN <<"L">>
           ELSE IF has("DS") THEN <<"DS">>
           ELSE <<>>)

generate_set_lineup(ps, must_play_players, history) ==
    LET required_positions == get_required_positions(volleyball_config)
        r == assign_positions_smart(ps, required_positions, must_play_players,
                                    history)
    IN IF ~r.ok
       THEN [ok |-> FALSE, error |-> r.error]
       ELSE IF r.assignments = <<>> \/ Len(r.assignments) < Len(required_positions)
       THEN [ok |-> FALSE, error |-> "cannot_fill"]
       ELSE [ok |-> TRUE, error |-> "",
             assignments |-> r.assignments,
             history |-> track_player_position_history(r.assignments, history),
             bench_players |-> bench_of(ps, r.assignments)]

\* the bench tracker update in the loop of VolleyballLineupGenerator.generate
RECURSIVE update_set_bench_tracker(_, _, _)
update_set_bench_tracker(bench_players, ps, bench) ==
    IF ps = <<>>
    THEN bench
    ELSE LET p == Head(ps)
         IN update_set_bench_tracker(
                bench_players, Tail(ps),
                IF InList(p, bench_players)
                THEN DictSet(bench, p.id, bench[p.id] + 1)
                ELSE DictSet(bench, p.id, 0))

---------------------------------------------------------------------------
(* generate(): one call, from its arguments to its return or its ValueError. *)

\* position_history = player_history or {}: a non-empty dict of the caller is
\* used as it is, and updated in place
aliased == DOMAIN player_history # {}

Raise(kind) ==
    /\ pc' = "error"
    /\ error' = kind
    /\ UNCHANGED <<sport, players, game_info, player_history, position_history,
                   pitcher_history, bench_tracker, lineups, period, returned>>

\* generate() up to the loop: validation and the tracking dictionaries
StartCall(config) ==
    IF validate_game_info(game_info) # <<>>
    THEN Raise("invalid_game_info")
    ELSE IF validate_players(config, players) # <<>>
    THEN Raise("invalid_players")
    ELSE /\ position_history' = player_history
         /\ pitcher_history' = EmptyDict
         /\ bench_tracker' = [id \in {players[i].id : i \in 1..Len(players)} |-> 0]
         /\ lineups' = <<>>
         /\ period' = 1
         /\ pc' = "loop"
         /\ UNCHANGED <<sport, players, game_info, player_history, error,
                        returned>>

BaseballStart ==
    /\ sport = "baseball"
    /\ pc = "start"
    /\ StartCall(baseball_config)

\* one iteration of the loop of BaseballLineupGenerator.generate
BaseballPeriod ==
    /\ sport = "baseball"
    /\ pc = "loop"
    /\ period <= num_periods(game_info)
    /\ \E r \in {generate_period_lineup(period, players, position_history,
                                       pitcher_history, bench_tracker)} :
          IF ~r.ok
          THEN Raise(r.error)
          ELSE /\ lineups' = Append(lineups, r.lineup)
               /\ position_history' =
                      track_player_position_history(r.lineup.assignments,
                                                    position_history)
               /\ player_history' =
                      IF aliased THEN position_history' ELSE player_history
               /\ pitcher_history' =
                      update_pitcher_history(r.lineup.assignments, period,
                                             pitcher_history)
               /\ bench_tracker' =
                      update_bench_tracker(r.lineup.assignments, players,
                                           bench_tracker)
               /\ period' = period + 1
               /\ UNCHANGED <<sport, players, game_info, pc, error, returned>>

BaseballReturn ==
    /\ sport = "baseball"
    /\ pc = "loop"
    /\ period > num_periods(game_info)
    /\ pc' = "done"
    /\ returned' = lineups
    /\ UNCHANGED <<sport, players, game_info, player_history, position_history,
                   pitcher_history, bench_tracker, lineups, period, error>>

VolleyballStart ==
    /\ sport = "volleyball"
    /\ pc = "start"
    /\ StartCall(volleyball_config)

\* one iteration of the loop of VolleyballLineupGenerator.generate
VolleyballSet ==
    /\ sport = "volleyball"
    /\ pc = "loop"
    /\ period <= num_sets(game_info)
    /\ \E r \in {generate_set_lineup(
                    players,
                    get_must_play_players(players, bench_tracker, period),
                    position_history)} :
          IF ~r.ok
          THEN Raise(r.error)
          ELSE /\ position_history' = r.history
               /\ player_history' =
                      IF aliased THEN position_history' ELSE player_history
               /\ bench_tracker' =
                      update_set_bench_tracker(r.bench_players, players,
                                               bench_tracker)
               /\ lineups' = Append(lineups,
                                    Lineup(period, r.assignments, r.bench_players))
               /\ period' = period + 1
               /\ UNCHANGED <<sport, players, game_info, pitcher_history, pc,
                              error, returned>>

VolleyballReturn ==
    /\ sport = "volleyball"
    /\ pc = "loop"
    /\ period > num_sets(game_info)
    /\ pc' = "done"
    /\ returned' = lineups
    /\ UNCHANGED <<sport, players, game_info, player_history, position_history,
                   pitcher_history, bench_tracker, lineups, period, error>>

---------------------------------------------------------------------------
(* The calls of generate() the model explores. *)

IdOf(i) == ToString(i)

FlexPrefs == {<<>>, <<"P">>, <<"P", "C">>, <<"C", "1B">>, <<"C">>}
ExtraPrefs == {<<>>, <<"C">>}
BaseballSpecialists == <<"2B", "3B", "SS", "LF", "CF", "RF">>

\* players 1..3 with the preferences f, six one-position players, and the
\* players from the tenth on with the preferences e
BaseballRoster(n, f, e) ==
    [i \in 1..n |->
        IF i <= Len(f) THEN Player(IdOf(i), f[i])
        ELSE IF i <= Len(f) + Len(BaseballSpecialists)
        THEN Player(IdOf(i), <<BaseballSpecialists[i - Len(f)]>>)
        ELSE Player(IdOf(i), e)]

BaseballRosters ==
    LET k == baseball_config.total_positions
    IN UNION {{BaseballRoster(n, f, e) :
                  f \in [1..(k - Len(BaseballSpecialists)) -> FlexPrefs],
                  e \in IF n > k THEN ExtraPrefs ELSE {<<>>}} :
              n \in (k - 1)..(k + MaxBench)}

BaseballHistories ==
    {EmptyDict,
     [id \in {"2", "3", "10"} |->
         IF id = "10" THEN <<"P", "P", "C", "C", "1B", "1B">> ELSE <<"P", "P">>]}

VolleyballFlexPrefs == {<<>>, <<"S">>, <<"OH">>}
VolleyballExtraPrefs == {<<>>, <<"S">>}
VolleyballSpecialists == <<"OH", "MB", "MB", "OPP">>

VolleyballRoster(n, f, e) ==
    [i \in 1..n |->
        IF i <= Len(f) THEN Player(IdOf(i), f[i])
        ELSE IF i <= Len(f) + Len(VolleyballSpecialists)
        THEN Player(IdOf(i), <<VolleyballSpecialists[i - Len(f)]>>)
        ELSE Player(IdOf(i), e)]

\* six players of whom only two can play OH, one of them the only opposite
VolleyballShortRoster ==
    <<Player(IdOf(1), <<"S">>), Player(IdOf(2), <<"OH", "OPP">>),
      Player(IdOf(3), <<"OH">>), Player(IdOf(4), <<"MB">>),
      Player(IdOf(5), <<"MB">>), Player(IdOf(6), <<"MB">>)>>

VolleyballRosters ==
    LET k == volleyball_config.total_positions
    IN UNION {{VolleyballRoster(n, f, e) :
                  f \in [1..(k - Len(VolleyballSpecialists)) -> VolleyballFlexPrefs],
                  e \in IF n > k THEN VolleyballExtraPrefs ELSE {<<>>}} :
              n \in (k - 1)..(k + MaxBench)}
       \cup {VolleyballShortRoster}

VolleyballHistories ==
    {EmptyDict, [id \in {"1"} |-> <<"S", "S", "S">>]}

WithKeys(keys) == [k \in keys |-> "x"]

GameInfos(count_key) ==
    {WithKeys(keys) : keys \in SUBSET {"game_id", "team_id"}}
    \cup {DictSet(WithKeys({"game_id", "team_id"}), count_key, n) :
              n \in {1, MaxPeriods}}

NoCall ==
    /\ sport = "none"
    /\ players = <<>>
    /\ game_info = EmptyDict
    /\ player_history = EmptyDict
    /\ position_history = EmptyDict
    /\ pitcher_history = EmptyDict
    /\ bench_tracker = EmptyDict
    /\ lineups = <<>>
    /\ period = 0
    /\ pc = "idle"
    /\ error = ""
    /\ returned = <<>>

NoFactoryCall ==
    /\ f_sport_id = [kind |-> "none"]
    /\ f_pc = "idle"
    /\ f_result = ""
    /\ f_supported = FALSE

NoTwoCalls ==
    /\ instance = [sport |-> "none"]
    /\ calls = <<>>
    /\ store = <<>>

NoUtilCall ==
    /\ u_players = <<>>
    /\ u_positions = <<>>
    /\ u_must = <<>>
    /\ u_history = EmptyDict
    /\ u_pc = "idle"
    /\ u_feasible = FALSE
    /\ u_result = [ok |-> FALSE, error |-> "", assignments |-> <<>>]
    /\ u_ranked = [position |-> "", candidates |-> <<>>]

Init ==
    /\ \/ /\ sport = "baseball"
          /\ players \in BaseballRosters
          /\ player_history \in BaseballHistories
          /\ game_info \in GameInfos("num_periods")
       \/ /\ sport = "volleyball"
          /\ players \in VolleyballRosters
          /\ player_history \in VolleyballHistories
          /\ game_info \in GameInfos("num_sets")
                           \cup GameInfos("num_periods")
    /\ position_history = EmptyDict
    /\ pitcher_history = EmptyDict
    /\ bench_tracker = EmptyDict
    /\ lineups = <<>>
    /\ period = 0
    /\ pc = "start"
    /\ error = ""
    /\ returned = <<>>
    /\ NoUtilCall
    /\ NoFactoryCall
    /\ NoTwoCalls

Next ==
    \/ BaseballStart /\ UNCHANGED <<util_vars, fac_vars, two_vars>>
    \/ BaseballPeriod /\ UNCHANGED <<util_vars, fac_vars, two_vars>>
    \/ BaseballReturn /\ UNCHANGED <<util_vars, fac_vars, two_vars>>
    \/ VolleyballStart /\ UNCHANGED <<util_vars, fac_vars, two_vars>>
    \/ VolleyballSet /\ UNCHANGED <<util_vars, fac_vars, two_vars>>
    \/ VolleyballReturn /\ UNCHANGED <<util_vars, fac_vars, two_vars>>

Spec == Init /\ [][Next]_vars

---------------------------------------------------------------------------
(* Calls of generate() with rosters of players without preferences. *)

AnyRoster(n) == [i \in 1..n |-> Player(IdOf(i), <<>>)]

\* bench sizes of the baseball rosters: none, one, three, and the two largest
AnyBenchSizes == {0, 1, 3, MaxAnyBench - 1, MaxAnyBench}

AnyInit ==
    /\ \/ /\ sport = "baseball"
          /\ \E b \in AnyBenchSizes :
                 /\ players = AnyRoster(baseball_config.total_positions + b)
                 /\ player_history \in IF b = 3 THEN BaseballHistories
                                               ELSE {EmptyDict}
          /\ game_info \in {WithKeys({"game_id", "team_id"}),
                            DictSet(WithKeys({"game_id", "team_id"}),
                                    "num_periods", MaxAnyPeriods)}
       \/ /\ sport = "volleyball"
          /\ \E b \in 0..MaxAnyBench :
                 players = AnyRoster(volleyball_config.total_positions + b)
          /\ player_history \in VolleyballHistories
          /\ game_info \in {WithKeys({"game_id", "team_id"}),
                            DictSet(WithKeys({"game_id", "team_id"}),
                                    "num_sets", MaxAnyPeriods)}
    /\ position_history = EmptyDict
    /\ pitcher_history = EmptyDict
    /\ bench_tracker = EmptyDict
    /\ lineups = <<>>
    /\ period = 0
    /\ pc = "start"
    /\ error = ""
    /\ returned = <<>>
    /\ NoUtilCall
    /\ NoFactoryCall
    /\ NoTwoCalls

SpecAny == AnyInit /\ [][Next]_vars

---------------------------------------------------------------------------
(* Direct calls of the feasibility checker and of the assignment engine. *)

UtilPositionIds == {"P", "C", "1B"}
UtilPrefs == {<<>>, <<"P">>, <<"P", "C">>, <<"P", "1B">>, <<"C", "1B">>}

UtilPools ==
    UNION {{[i \in 1..n |-> Player(IdOf(i), f[i])] : f \in [1..n -> UtilPrefs]} :
           n \in 1..MaxPool}

UtilPositionLists ==
    UNION {[1..n -> UtilPositionIds] : n \in 0..MaxPositions}

UtilInit ==
    /\ NoCall
    /\ NoFactoryCall
    /\ NoTwoCalls
    /\ u_players \in UtilPools
    /\ u_positions \in UtilPositionLists
    /\ u_must \in {<<>>, <<u_players[Len(u_players)]>>}
    /\ u_history \in {EmptyDict, [id \in {"1"} |-> <<"P">>]}
    /\ u_pc = "ready"
    /\ u_feasible = FALSE
    /\ u_result = [ok |-> FALSE, error |-> "", assignments |-> <<>>]
    /\ u_ranked = [position |-> "", candidates |-> <<>>]

\* can_fill_all_positions(players, position_ids)
CallCanFill ==
    /\ u_pc = "ready"
    /\ u_feasible' = can_fill_all_positions(u_players, u_positions)
    /\ u_pc' = "checked"
    /\ UNCHANGED <<u_players, u_positions, u_must, u_history, u_result,
                   u_ranked>>

\* assign_positions_smart(players, positions, must_play_players, history)
CallAssign ==
    /\ u_pc = "checked"
    /\ u_result' = assign_positions_smart(u_players, u_positions, u_must,
                                          u_history)
    /\ u_pc' = "assigned"
    /\ UNCHANGED <<u_players, u_positions, u_must, u_history, u_feasible,
                   u_ranked>>

UtilNext ==
    \/ CallCanFill /\ UNCHANGED <<gen_vars, fac_vars, two_vars>>
    \/ CallAssign /\ UNCHANGED <<gen_vars, fac_vars, two_vars>>

SpecUtil == UtilInit /\ [][UtilNext]_vars

---------------------------------------------------------------------------
(* The candidate ranking of the assignment engine, for one position. *)

RankPositionIds == {"P", "C"}

\* a preference list with more entries than the value an empty list counts as
ManyPrefs ==
    [i \in 1..(AnyPositionFlexibility + 1) |-> IF i = 1 THEN "P" ELSE "C"]

RankPrefs == {<<>>, <<"P">>, <<"P", "C">>, ManyPrefs}

RankPools ==
    UNION {{[i \in 1..n |-> Player(IdOf(i), f[i])] : f \in [1..n -> RankPrefs]} :
           n \in 1..MaxRankPool}

\* the positions a player has played so far: up to MaxPlayed entries
Played == UNION {[1..n -> RankPositionIds] : n \in 0..MaxPlayed}

RankHistories == {EmptyDict} \cup [{IdOf(1), IdOf(2)} -> Played]

RankInit ==
    /\ NoCall
    /\ NoFactoryCall
    /\ NoTwoCalls
    /\ u_players \in RankPools
    /\ u_positions = <<>>
    /\ u_must = <<>>
    /\ u_history \in RankHistories
    /\ u_pc = "ready"
    /\ u_feasible = FALSE
    /\ u_result = [ok |-> FALSE, error |-> "", assignments |-> <<>>]
    /\ u_ranked = [position |-> "", candidates |-> <<>>]

\* the candidates of a position and their sort, as in assign_positions_smart
CallSortCandidates ==
    /\ u_pc = "ready"
    /\ \E position \in RankPositionIds :
           u_ranked' =
               [position |-> position,
                candidates |->
                    sort_candidates(
                        get_candidates_for_position(position, u_players),
                        position, u_history)]
    /\ u_pc' = "ranked"
    /\ UNCHANGED <<u_players, u_positions, u_must, u_history, u_feasible,
                   u_result>>

RankNext == CallSortCandidates /\ UNCHANGED <<gen_vars, fac_vars, two_vars>>

SpecRank == RankInit /\ [][RankNext]_vars

---------------------------------------------------------------------------
(* sports/services/lineup_factory.py; a string is a sequence of characters. *)

Whitespace == {" ", "\t", "\n"}

UpperCase ==
    [c \in {"a", "b", "c", "e", "f", "l", "o", "r", "s", "t", "v", "y"} |->
        CASE c = "a" -> "A" [] c = "b" -> "B" [] c = "c" -> "C"
          [] c = "e" -> "E" [] c = "f" -> "F" [] c = "l" -> "L"
          [] c = "o" -> "O" [] c = "r" -> "R" [] c = "s" -> "S"
          [] c = "t" -> "T" [] c = "v" -> "V" [] c = "y" -> "Y"]

\* str.lower(), one character
char_lower(c) ==
    IF \E l \in DOMAIN UpperCase : UpperCase[l] = c
    THEN CHOOSE l \in DOMAIN UpperCase : UpperCase[l] = c
    ELSE c

lower(str) == [i \in 1..Len(str) |-> char_lower(str[i])]

RECURSIVE lstrip(_)
lstrip(str) ==
    IF str # <<>> /\ Head(str) \in Whitespace THEN lstrip(Tail(str)) ELSE str

RECURSIVE rstrip(_)
rstrip(str) ==
    IF str # <<>> /\ str[Len(str)] \in Whitespace
    THEN rstrip(SubSeq(str, 1, Len(str) - 1))
    ELSE str

\* variant: the identifier is not trimmed
strip_nothing(str) == str

strip(str) == rstrip(lstrip(str))

Baseball == <<"b", "a", "s", "e", "b", "a", "l", "l">>
Soccer == <<"s", "o", "c", "c", "e", "r">>
Volleyball == <<"v", "o", "l", "l", "e", "y", "b", "a", "l", "l">>

\* the sports with a configuration file config/sports/<sport_id>.json
ConfigFiles == {Baseball, Soccer, Volleyball}

\* not sport_id
falsy(sport_id) ==
    \/ sport_id.kind = "none"
    \/ sport_id.kind = "str" /\ sport_id.chars = <<>>
    \/ sport_id.kind = "int" /\ sport_id.value = 0

\* what get_lineup_generator returns (the generator's class) or raises
get_lineup_generator(sport_id) ==
    IF falsy(sport_id)
    THEN "ValueError"
    ELSE IF sport_id.kind # "str"
    THEN "ValueError"
    ELSE LET id == strip(lower(sport_id.chars))
         IN IF id \notin ConfigFiles
            THEN "ValueError"
            ELSE IF id = Baseball THEN "BaseballLineupGenerator"
            ELSE IF id = Soccer THEN "NotImplementedError"
            ELSE IF id = Volleyball THEN "VolleyballLineupGenerator"
            ELSE "ValueError"

get_supported_sports == <<Baseball, Volleyball>>

is_sport_supported(sport_id) ==
    IF falsy(sport_id) \/ sport_id.kind # "str"
    THEN FALSE
    ELSE InList(strip(lower(sport_id.chars)), get_supported_sports)

Football == <<"f", "o", "o", "t", "b", "a", "l", "l">>
BaseSpaceBall == <<"b", "a", "s", "e", " ", "b", "a", "l", "l">>

Pads == UNION {[1..n -> Whitespace] : n \in 0..MaxPad}

\* upper-case letters: none, all, the first, every other one
CaseMasks(n) == {{}, 1..n, {1}, {i \in 1..n : i % 2 = 1}}

WithCase(word, mask) ==
    [i \in 1..Len(word) |->
        IF i \in mask /\ word[i] \in DOMAIN UpperCase
        THEN UpperCase[word[i]]
        ELSE word[i]]

SportIds ==
    {[kind |-> "str", chars |-> lead \o WithCase(word, mask) \o trail] :
         lead \in Pads, trail \in Pads,
         word \in {Baseball, Soccer, Volleyball, Football, BaseSpaceBall, <<>>},
         mask \in CaseMasks(Len(Volleyball))}
    \cup {[kind |-> "none"], [kind |-> "int", value |-> 0],
          [kind |-> "int", value |-> 123]}

FactoryInit ==
    /\ NoCall
    /\ NoUtilCall
    /\ NoTwoCalls
    /\ f_sport_id \in SportIds
    /\ f_pc = "ready"
    /\ f_result = ""
    /\ f_supported = FALSE

CallGetLineupGenerator ==
    /\ f_pc = "ready"
    /\ f_result' = get_lineup_generator(f_sport_id)
    /\ f_pc' = "got"
    /\ UNCHANGED <<f_sport_id, f_supported>>

CallIsSportSupported ==
    /\ f_pc = "got"
    /\ f_supported' = is_sport_supported(f_sport_id)
    /\ f_pc' = "checked"
    /\ UNCHANGED <<f_sport_id, f_result>>

FactoryNext ==
    \/ CallGetLineupGenerator /\ UNCHANGED <<gen_vars, util_vars, two_vars>>
    \/ CallIsSportSupported /\ UNCHANGED <<gen_vars, util_vars, two_vars>>

SpecFactory == FactoryInit /\ [][FactoryNext]_vars

---------------------------------------------------------------------------
(* Properties. *)

\* some assignment of pairwise distinct players of ps to the entries of
\* position_ids gives every entry a player who can play it
ExistsAssignment(ps, position_ids) ==
    \E m \in [1..Len(position_ids) -> 1..Len(ps)] :
        /\ \A i, j \in 1..Len(position_ids) : i # j => m[i] # m[j]
        /\ \A i \in 1..Len(position_ids) :
               can_play_position(ps[m[i]], position_ids[i])

PositionsOf(assignments) ==
    [i \in 1..Len(assignments) |-> assignments[i].position]

PlayerIdsOf(assignments) ==
    [i \in 1..Len(assignments) |-> assignments[i].player.id]

NoRepeats(s) == \A i, j \in 1..Len(s) : i # j => s[i] # s[j]

\* C1: can_fill_all_positions returns true exactly when distinct players can
\* be assigned to all entries of the position list, each able to play the
\* position of the entry; for the empty list it returns true.
C1_FeasibleIffAssignmentExists ==
    u_pc \in {"checked", "assigned"} =>
        /\ u_feasible <=> ExistsAssignment(u_players, u_positions)
        /\ u_positions = <<>> => u_feasible

\* C2: assign_positions_smart returns a complete one-to-one assignment of
\* every requested position exactly when can_fill_all_positions is true for
\* the same players and positions, and raises otherwise; it never raises on
\* an input the feasibility checker accepts.  Stated for position lists
\* without a repeated identifier, where the feasibility checker is exact.
C2_AssignsIffFeasible ==
    (u_pc = "assigned" /\ NoRepeats(u_positions)) =>
        /\ u_result.ok <=> u_feasible
        /\ u_result.ok =>
               /\ PositionsOf(u_result.assignments) \in
                      {q \in [1..Len(u_positions) -> UtilPositionIds] :
                          \A id \in UtilPositionIds :
                              Count(q, id) = Count(u_positions, id)}
               /\ NoRepeats(PlayerIdsOf(u_result.assignments))


NinePositions == {"P", "C", "1B", "2B", "3B", "SS", "LF", "CF", "RF"}

IdsOf(ps) == {ps[i].id : i \in 1..Len(ps)}

PitcherId(lineup) ==
    LET i == CHOOSE j \in 1..Len(lineup.assignments) :
                 lineup.assignments[j].position = "P"
    IN lineup.assignments[i].player.id

\* the step that appends a lineup is being taken
PeriodBuilt == pc = "loop" /\ Len(lineups') = Len(lineups) + 1

\* C3: every lineup BaseballLineupGenerator.generate returns has exactly one
\* assignment for each of the nine positions and no player id twice.
C3_BaseballLineupComplete ==
    (sport = "baseball" /\ pc = "done") =>
        \A k \in 1..Len(returned) :
            /\ Len(returned[k].assignments) = Cardinality(NinePositions)
            /\ \A q \in NinePositions :
                   Count(PositionsOf(returned[k].assignments), q) = 1
            /\ NoRepeats(PlayerIdsOf(returned[k].assignments))

C3_Witness ==
    /\ sport = "baseball"
    /\ pc = "done"
    /\ Len(returned) = DefaultNumPeriods
    /\ \A k \in 1..Len(returned) : returned[k].bench_players # <<>>

C5_AssignedAndBenchPartition ==
    pc = "done" =>
        \A k \in 1..Len(returned) :
            LET assigned == {returned[k].assignments[i].player.id :
                                 i \in 1..Len(returned[k].assignments)}
                bench == IdsOf(returned[k].bench_players)
            IN /\ assigned \cap bench = {}
               /\ assigned \cup bench = IdsOf(players)

C5_Witness ==
    /\ pc = "done"
    /\ Len(returned) > 1
    /\ \E k \in 1..Len(returned) :
           /\ returned[k].bench_players # <<>>
           /\ returned[k].bench_players # returned[1].bench_players

\* the eligibility view of the period about to be generated
PeriodView ==
    IF sport = "baseball"
    THEN filtered_players(players, pitcher_history, period)
    ELSE players

\* C6: each player assigned in a period is eligible for the position under
\* that period's eligibility view: the position is among the view's
\* preferences of the player, or these are empty.
C6_AssignedPlayersEligible ==
    [][PeriodBuilt =>
          LET new == lineups'[Len(lineups')].assignments
          IN \A i \in 1..Len(new) :
                 \E j \in 1..Len(PeriodView) :
                     /\ PeriodView[j].id = new[i].player.id
                     /\ \/ PeriodView[j].position_preferences = <<>>
                        \/ InList(new[i].position,
                                  PeriodView[j].position_preferences)]_vars

\* a player who pitched the period before plays under the narrowed view
C6_Witness ==
    /\ sport = "baseball"
    /\ \E k \in 2..Len(lineups) :
           \E i \in 1..Len(lineups[k].assignments) :
               LET a == lineups[k].assignments[i]
               IN /\ a.player.id = PitcherId(lineups[k - 1])
                  /\ ~InList(a.player, players)
                  /\ InList(a.position, a.player.position_preferences)

\* C7: in every returned list of baseball lineups the pitcher of period i+1
\* is not the pitcher of period i whenever at least two players other than
\* the pitcher of period i can play P, for every roster, period count and
\* caller-supplied player_history.
C7_PitcherNeverConsecutive ==
    (sport = "baseball" /\ pc = "done") =>
        \A i \in 1..(Len(returned) - 1) :
            Cardinality({j \in 1..Len(players) :
                            /\ can_play_position(players[j], "P")
                            /\ players[j].id # PitcherId(returned[i])}) >= 2
            => PitcherId(returned[i + 1]) # PitcherId(returned[i])

\* C8: a player whose bench_tracker is at least 2 on entering a period is
\* assigned in it, unless every position of the period the player can play
\* went to another player whose bench_tracker was at least 2.
C8_MustPlayEnforced ==
    [][PeriodBuilt =>
          LET new == lineups'[Len(lineups')].assignments
              must == {id \in IdsOf(players) : bench_tracker[id] >= 2}
          IN \A i \in 1..Len(players) :
                 players[i].id \in must =>
                     \/ \E j \in 1..Len(new) : new[j].player.id = players[i].id
                     \/ \A j \in 1..Len(new) :
                            can_play_position(players[i], new[j].position)
                            => new[j].player.id \in must \ {players[i].id}]_vars

\* a player sat out two periods in a row and plays the next one
C8_Witness ==
    \E k \in 3..Len(lineups) :
        \E i \in 1..Len(players) :
            /\ InList(players[i], lineups[k - 2].bench_players)
            /\ InList(players[i], lineups[k - 1].bench_players)
            /\ ~InList(players[i], lineups[k].bench_players)
            /\ lineups[k].bench_players # <<>>

PitcherIds == {id \in IdsOf(players) :
                   \E i \in 1..Len(players) :
                       /\ players[i].id = id
                       /\ \/ players[i].position_preferences = <<>>
                          \/ InList("P", players[i].position_preferences)}

GameInfoComplete == {"game_id", "team_id"} \subseteq DOMAIN game_info

OnePitcherCall ==
    /\ sport = "baseball"
    /\ GameInfoComplete
    /\ Len(players) >= Cardinality(NinePositions)
    /\ Cardinality(PitcherIds) = 1
    /\ num_periods(game_info) >= 2

FailsInPeriodTwo ==
    /\ pc # "done"
    /\ returned = <<>>
    /\ Len(lineups) <= 1
    /\ Len(lineups) = 1 => PitcherIds = {PitcherId(lineups[1])}
    /\ (pc = "error" /\ Len(lineups) = 1) =>
           error = "no_eligible_pitchers" /\ period = 2

C10_RejectedBeforeGeneration ==
    (/\ sport = "baseball"
     /\ \/ ~GameInfoComplete
        \/ Len(players) < Cardinality(NinePositions)
        \/ PitcherIds = {}) =>
        /\ pc \in {"start", "error"}
        /\ lineups = <<>>
        /\ returned = <<>>
        /\ period = 0
        /\ position_history = EmptyDict
        /\ pitcher_history = EmptyDict
        /\ bench_tracker = EmptyDict
        /\ pc = "error" =>
               error = IF GameInfoComplete THEN "invalid_players"
                                           ELSE "invalid_game_info"

C10_Witness ==
    /\ sport = "baseball"
    /\ pc = "error"
    /\ error = "invalid_players"
    /\ PitcherIds = {}
    /\ Len(players) >= Cardinality(NinePositions)

\* C11: a baseball roster in which no player can play one of the positions
\* every lineup must fill is rejected by input validation, before any
\* per-period work, and not inside the assignment of period 1.
C11_UnstaffedPositionRejectedEarly ==
    (/\ sport = "baseball"
     /\ GameInfoComplete
     /\ \E q \in NinePositions :
            \A i \in 1..Len(players) :
                /\ players[i].position_preferences # <<>>
                /\ ~InList(q, players[i].position_preferences)) =>
        /\ pc \in {"start", "error"}
        /\ period = 0
        /\ lineups = <<>>
        /\ pc = "error" => error = "invalid_players"

\* C12: generate leaves its inputs as they were: the players list, every
\* player record and the caller's player_history are the same after every
\* step of a call, whether it returns or raises.
C12_InputsUnchanged ==
    [][/\ players' = players
       /\ player_history' = player_history
       /\ game_info' = game_info]_vars

PeriodsInOrder == \A k \in 1..Len(returned) : returned[k].period = k

NoPreferences ==
    \A i \in 1..Len(players) : players[i].position_preferences = <<>>

BenchIds(lineup) == IdsOf(lineup.bench_players)

\* C14: for a baseball roster of 10 to 18 players without preferences no
\* player is on the bench in three consecutive periods (bench_tracker never
\* exceeds 2); with 12 players and 3 periods every lineup has exactly 3
\* bench players and every player is assigned in at least one period.
C14_NoThirdBenchPeriod ==
    (sport = "baseball" /\ NoPreferences /\ Len(players) \in 10..18) =>
        /\ \A id \in DOMAIN bench_tracker : bench_tracker[id] <= 2
        /\ \A k \in 3..Len(lineups) :
               BenchIds(lineups[k - 2]) \cap BenchIds(lineups[k - 1])
                   \cap BenchIds(lineups[k]) = {}
        /\ (pc = "done" /\ Len(players) = 12 /\ Len(returned) = 3) =>
               /\ \A k \in 1..3 : Cardinality(BenchIds(returned[k])) = 3
               /\ \A id \in IdsOf(players) :
                      \E k \in 1..3 : id \notin BenchIds(returned[k])

C14_Witness ==
    /\ sport = "baseball"
    /\ NoPreferences
    /\ Len(players) = 12
    /\ pc = "done"
    /\ Len(returned) = 3
    /\ \E id \in IdsOf(players) :
           /\ id \in BenchIds(returned[1]) \cap BenchIds(returned[2])
           /\ id \notin BenchIds(returned[3])

SlotsPerPeriod == IF sport = "baseball" THEN 9 ELSE 6

\* C15: for a roster of players without preferences with at least as many
\* players as slots per period (9 baseball, 6 volleyball) generate does not
\* raise, and every lineup has all slots assigned and n - 9 (n - 6) bench
\* players, a volleyball lineup holding one assignment at S.
C15_AnyPositionRosterNeverFails ==
    (/\ sport \in {"baseball", "volleyball"}
     /\ GameInfoComplete
     /\ NoPreferences
     /\ Len(players) >= SlotsPerPeriod) =>
        /\ pc # "error"
        /\ \A k \in 1..Len(lineups) :
               /\ Len(lineups[k].assignments) = SlotsPerPeriod
               /\ NoRepeats(PlayerIdsOf(lineups[k].assignments))
               /\ Len(lineups[k].bench_players) = Len(players) - SlotsPerPeriod
               /\ sport = "baseball" =>
                      \A q \in NinePositions :
                          Count(PositionsOf(lineups[k].assignments), q) = 1
               /\ sport = "volleyball" =>
                      Count(PositionsOf(lineups[k].assignments), "S") = 1

C15_Witness ==
    /\ sport = "volleyball"
    /\ NoPreferences
    /\ Len(players) > SlotsPerPeriod
    /\ pc = "done"
    /\ Len(returned) = MaxAnyPeriods
    /\ \A k \in 1..Len(returned) :
           Count(PositionsOf(returned[k].assignments), "S") = 1

\* whether distinct players of ps can take the listed positions, one each
RECURSIVE Staffable(_, _, _)
Staffable(ps, position_ids, used) ==
    \/ position_ids = <<>>
    \/ \E i \in (1..Len(ps)) \ used :
           /\ \/ ps[i].position_preferences = <<>>
              \/ InList(Head(position_ids), ps[i].position_preferences)
           /\ Staffable(ps, Tail(position_ids), used \cup {i})

SixSlots == <<"S", "OH", "OH", "MB", "MB", "OPP">>

SameSlots(position_ids, slots) ==
    /\ Len(position_ids) = Len(slots)
    /\ \A i \in 1..Len(slots) :
           Count(position_ids, slots[i]) = Count(slots, slots[i])

\* C16: every lineup the volleyball generator builds has six assignments
\* whose positions are one S, two OH, two MB and one OPP (L, else DS, when
\* OPP is not configured), given to six distinct players; when these slots
\* cannot be filled the call raises and returns no lineup.
C16_VolleyballSixSlots ==
    sport = "volleyball" =>
        /\ \A k \in 1..Len(lineups) :
               /\ SameSlots(PositionsOf(lineups[k].assignments), SixSlots)
               /\ NoRepeats(PlayerIdsOf(lineups[k].assignments))
        /\ ~Staffable(players, SixSlots, {}) =>
               /\ lineups = <<>>
               /\ pc \in {"start", "loop", "error"}
               /\ returned = <<>>
        /\ get_required_positions([positions |-> <<"S", "OH", "MB", "L", "DS">>])
               = <<"S", "OH", "OH", "MB", "MB", "L">>
        /\ get_required_positions([positions |-> <<"S", "OH", "MB", "DS">>])
               = <<"S", "OH", "OH", "MB", "MB", "DS">>

C16_Witness ==
    /\ sport = "volleyball"
    /\ pc = "done"
    /\ Len(players) > Len(SixSlots)
    /\ Len(returned) = MaxPeriods
    /\ \A k \in 1..Len(returned) :
           SameSlots(PositionsOf(returned[k].assignments), SixSlots)

\* the slots cannot be filled although the feasibility check passes
C16_RaisesInsideAssignment ==
    /\ sport = "volleyball"
    /\ ~Staffable(players, SixSlots, {})
    /\ pc = "error"
    /\ error = "no_candidates"

\* C17: can_fill_all_positions returns false whenever the position list has
\* more entries than the pool has players, repeated identifiers included.
C17_MoreSlotsThanPlayers ==
    (u_pc \in {"checked", "assigned"} /\ Len(u_positions) > Len(u_players))
        => ~u_feasible

\* the positions of position_scarcity after index idx
LaterPositions(position_scarcity, idx) ==
    [i \in 1..(Len(position_scarcity) - idx) |-> position_scarcity[idx + i][1]]

\* the first candidate whose removal leaves the later positions fillable,
\* the top-ranked one when there is none
FirstSafeCandidate(candidates, remaining_players, later) ==
    LET safe(c) ==
            \/ later = <<>>
            \/ can_fill_all_positions(
                   SelectSeq(remaining_players, LAMBDA p : p.id # c.id), later)
        passing == {i \in 1..Len(candidates) : safe(candidates[i])}
    IN IF passing = {}
       THEN candidates[1]
       ELSE candidates[CHOOSE i \in passing : \A j \in passing : i <= j]

\* the assignments made when each position takes its first safe candidate
RECURSIVE FirstSafeAssignments(_, _, _, _, _, _)
FirstSafeAssignments(position_scarcity, idx, remaining_players, assignments, must_play_players, history) ==
    IF idx > Len(position_scarcity)
    THEN assignments
    ELSE LET position == position_scarcity[idx][1]
             candidates ==
                 sort_candidates(
                     prioritize_must_play(
                         get_candidates_for_position(position, remaining_players),
                         must_play_players),
                     position, history)
         IN IF candidates = <<>>
            THEN <<>>
            ELSE LET chosen_player ==
                         FirstSafeCandidate(
                             candidates, remaining_players,
                             LaterPositions(position_scarcity, idx))
                 IN FirstSafeAssignments(
                        position_scarcity, idx + 1,
                        RemoveFirst(remaining_players, chosen_player),
                        Append(assignments,
                               PositionAssignment(chosen_player, position)),
                        must_play_players, history)

\* C19: assign_positions_smart gives each position, in scarcity order, the
\* first ranked candidate whose removal leaves the positions not yet
\* processed fillable, and the top-ranked candidate only when there is none.
\* Stated for calls that return, with a position list without repeats.
C19_FirstSafeCandidateChosen ==
    (u_pc = "assigned" /\ u_result.ok /\ NoRepeats(u_positions)) =>
        u_result.assignments =
            FirstSafeAssignments(
                calculate_position_scarcity(u_positions, u_players), 1,
                u_players, <<>>, u_must, u_history)

\* the argument is the word in any letter case with whitespace around it
Names(word) ==
    /\ f_sport_id.kind = "str"
    /\ \E a \in 0..Len(f_sport_id.chars) :
           LET chars == f_sport_id.chars
           IN /\ a + Len(word) <= Len(chars)
              /\ \A i \in 1..Len(chars) :
                     IF i > a /\ i <= a + Len(word)
                     THEN \/ chars[i] = word[i - a]
                          \/ /\ word[i - a] \in DOMAIN UpperCase
                             /\ chars[i] = UpperCase[word[i - a]]
                     ELSE chars[i] \in Whitespace

C20_PreviousPitcherMasked ==
    (sport = "baseball" /\ pc = "loop" /\ period > 1
     /\ period <= num_periods(game_info)) =>
        \A j \in 1..Len(PeriodView) :
            PeriodView[j].id = PitcherId(lineups[period - 1])
            => ~can_play_position(PeriodView[j], "P")

\* the players still unassigned when the i-th assignment of a result is made
RECURSIVE PoolBefore(_, _, _)
PoolBefore(ps, assignments, i) ==
    IF i <= 1
    THEN ps
    ELSE LET earlier == PoolBefore(ps, assignments, i - 1)
             taken == assignments[i - 1].player.id
         IN SelectSeq(earlier, LAMBDA p : p.id # taken)

\* the must-play players of the pool who can play the position
EligibleMustPlay(pool, must_play_players, position) ==
    {j \in 1..Len(pool) :
        /\ InList(pool[j], must_play_players)
        /\ can_play_position(pool[j], position)}

\* C21: at every position assign_positions_smart processes, the chosen
\* player is a must-play player whenever a must-play player still in the
\* remaining pool is eligible for the position; other players are chosen
\* only when no remaining must-play player is eligible.
C21_MustPlayChosenFirst ==
    (u_pc = "assigned" /\ u_result.ok) =>
        \A i \in 1..Len(u_result.assignments) :
            LET a == u_result.assignments[i]
                pool == PoolBefore(u_players, u_result.assignments, i)
            IN EligibleMustPlay(pool, u_must, a.position) # {}
                   => InList(a.player, u_must)

\* a must-play player takes a position for which another player of the
\* remaining pool ranks strictly before it
C21_Witness ==
    /\ u_pc = "assigned"
    /\ u_result.ok
    /\ \E i \in 2..Len(u_result.assignments) :
           LET a == u_result.assignments[i]
               pool == PoolBefore(u_players, u_result.assignments, i)
           IN /\ InList(a.player, u_must)
              /\ \E j \in 1..Len(pool) :
                     /\ ~InList(pool[j], u_must)
                     /\ can_play_position(pool[j], a.position)
                     /\ KeyLess(candidate_sort_key(pool[j], a.position, u_history),
                                candidate_sort_key(a.player, a.position, u_history))

\* how many players of the pool can play the position
Scarcity(ps, position) ==
    Cardinality({j \in 1..Len(ps) :
                    \/ ps[j].position_preferences = <<>>
                    \/ InList(position, ps[j].position_preferences)})

\* the positions of scarcity 0, then those of scarcity 1, ..., each group in
\* input order
RECURSIVE ByScarcityFrom(_, _, _)
ByScarcityFrom(positions, ps, c) ==
    IF c > Len(ps)
    THEN <<>>
    ELSE SelectSeq(positions, LAMBDA q : Scarcity(ps, q) = c)
         \o ByScarcityFrom(positions, ps, c + 1)

\* C22: assign_positions_smart processes the positions in non-decreasing
\* order of scarcity, the number of players of the full pool who can play
\* the position, counted once before any assignment; positions of equal
\* scarcity are processed in input order.
C22_ScarcestPositionFirst ==
    (u_pc = "assigned" /\ u_result.ok) =>
        LET order == PositionsOf(u_result.assignments)
        IN /\ \A i, j \in 1..Len(order) :
                  i < j => Scarcity(u_players, order[i])
                               <= Scarcity(u_players, order[j])
           /\ order = ByScarcityFrom(u_positions, u_players, 0)

\* the scarcest position is not the first of the input, and two different
\* positions of equal scarcity follow in input order
C22_Witness ==
    /\ u_pc = "assigned"
    /\ u_result.ok
    /\ LET order == PositionsOf(u_result.assignments)
       IN /\ Len(order) = MaxPositions
          /\ order # u_positions
          /\ Scarcity(u_players, order[1]) < Scarcity(u_players, u_positions[1])
          /\ \E i \in 1..(Len(order) - 1) :
                 /\ order[i] # order[i + 1]
                 /\ Scarcity(u_players, order[i])
                        = Scarcity(u_players, order[i + 1])

TimesPlayed(history, player, position) ==
    Count(DictGet(history, player.id, <<>>), position)

\* the pair the candidates are ranked by, an empty preference list counting
\* as any_value
RankPair(history, player, position, any_value) ==
    <<TimesPlayed(history, player, position),
      IF player.position_preferences = <<>>
      THEN any_value
      ELSE Len(player.position_preferences)>>

PoolIndex(ps, player) == CHOOSE k \in 1..Len(ps) : ps[k] = player

\* the ranked candidates are the eligible players of the pool, ascending by
\* their pairs, equal pairs in pool order
RankedBy(any_value) ==
    LET c == u_ranked.candidates
        q == u_ranked.position
    IN /\ NoRepeats(c)
       /\ {c[i] : i \in 1..Len(c)} =
              {u_players[k] : k \in {k \in 1..Len(u_players) :
                                        \/ u_players[k].position_preferences = <<>>
                                        \/ InList(q, u_players[k].position_preferences)}}
       /\ \A i, j \in 1..Len(c) :
              i < j =>
                  LET a == RankPair(u_history, c[i], q, any_value)
                      b == RankPair(u_history, c[j], q, any_value)
                  IN \/ KeyLess(a, b)
                     \/ a = b /\ PoolIndex(u_players, c[i]) < PoolIndex(u_players, c[j])

\* a value above the length of every preference list of the pool
AboveEveryCount ==
    1 + CHOOSE m \in 0..Len(ManyPrefs) :
            /\ \A k \in 1..Len(u_players) :
                   Len(u_players[k].position_preferences) <= m
            /\ \/ m = 0
               \/ \E k \in 1..Len(u_players) :
                      Len(u_players[k].position_preferences) = m

\* C23 as stated: the candidates of a position are ranked ascending by the
\* pair (times the player has played this position, number of explicit
\* preferences), an empty preference list counting as the largest value,
\* equal pairs in pool order.
C23_RankedEmptyLargest ==
    u_pc = "ranked" => RankedBy(AboveEveryCount)

\* C23 as amended: the same ranking with an empty preference list counting
\* as 99 preferences, so that a player without preferences ranks after
\* every player with fewer than 99 preferences and the same play count, and
\* before one with more than 99.
C23_RankedEmptyAsSentinel ==
    u_pc = "ranked" => RankedBy(AnyPositionFlexibility)

\* a player without preferences is ranked before a player with more than 99
\* preferences and the same play count, and a specialist who has played the
\* position more often is ranked after both
C23_Witness ==
    /\ u_pc = "ranked"
    /\ LET c == u_ranked.candidates
           q == u_ranked.position
       IN \E i, j, k \in 1..Len(c) :
              /\ i < j
              /\ j < k
              /\ c[i].position_preferences = <<>>
              /\ c[j].position_preferences = ManyPrefs
              /\ Len(c[k].position_preferences) = 1
              /\ TimesPlayed(u_history, c[i], q) = TimesPlayed(u_history, c[j], q)
              /\ TimesPlayed(u_history, c[j], q) < TimesPlayed(u_history, c[k], q)
              /\ PoolIndex(u_players, c[k]) < PoolIndex(u_players, c[i])

\* in how many of the lineups k, k-1, ... downwards, without a gap, the
\* player has no assignment
RECURSIVE TrailingBench(_, _)
TrailingBench(id, k) ==
    IF k = 0 \/ (\E i \in 1..Len(lineups[k].assignments) :
                     lineups[k].assignments[i].player.id = id)
    THEN 0
    ELSE 1 + TrailingBench(id, k - 1)

\* C24: in both generators, after each period is generated, bench_tracker[p]
\* is the number of consecutive most recent periods in which p was not
\* assigned: 0 if p played the period just generated, and otherwise one more
\* than before that period.
C24_BenchTrackerCountsTrailingBench ==
    /\ [](pc \in {"loop", "done"} =>
              /\ DOMAIN bench_tracker = IdsOf(players)
              /\ \A id \in IdsOf(players) :
                     bench_tracker[id] = TrailingBench(id, Len(lineups)))
    /\ [][PeriodBuilt =>
              LET new == lineups'[Len(lineups')].assignments
              IN \A id \in IdsOf(players) :
                     bench_tracker'[id] =
                         IF \E i \in 1..Len(new) : new[i].player.id = id
                         THEN 0
                         ELSE bench_tracker[id] + 1]_vars

\* a player who sat two periods in a row played the last one, in which
\* another player sat
C24_Witness ==
    /\ pc = "loop"
    /\ Len(lineups) >= 3
    /\ \E id \in IdsOf(players) :
           /\ bench_tracker[id] = 0
           /\ TrailingBench(id, Len(lineups) - 1) = 2
    /\ \E id \in IdsOf(players) : bench_tracker[id] = 1

\* the positions the player was assigned in lineups 1..k, in period order
RECURSIVE PositionsPlayed(_, _)
PositionsPlayed(id, k) ==
    IF k = 0
    THEN <<>>
    ELSE PositionsPlayed(id, k - 1)
         \o PositionsOf(SelectSeq(lineups[k].assignments,
                                  LAMBDA a : a.player.id = id))

\* the last n entries of a list
LastEntries(s, n) == SubSeq(s, Len(s) - n + 1, Len(s))

\* C25: position_history is append-only during a generate call: it starts
\* as the history passed in, every period appends to a player's entry the
\* position the player was assigned and nothing for a period on the bench,
\* so after k periods an entry is its initial content followed by the
\* positions of periods 1..k in period order.
C25_PositionHistoryAppendOnly ==
    /\ [](pc \in {"loop", "done"} =>
              \A id \in IdsOf(players) \cup DOMAIN position_history :
                  LET entry == DictGet(position_history, id, <<>>)
                      played == PositionsPlayed(id, Len(lineups))
                  IN /\ Len(played) <= Len(lineups)
                     /\ Len(entry) >= Len(played)
                     /\ LastEntries(entry, Len(played)) = played
                     /\ player_history = EmptyDict => entry = played)
    /\ [][/\ pc = "start" /\ pc' = "loop" => position_history' = player_history
          /\ PeriodBuilt =>
                 LET new == lineups'[Len(lineups')].assignments
                 IN /\ DOMAIN position_history' =
                           (DOMAIN position_history) \cup {new[i].player.id : i \in 1..Len(new)}
                    /\ \A id \in DOMAIN position_history' :
                           position_history'[id] =
                               DictGet(position_history, id, <<>>)
                               \o PositionsOf(SelectSeq(new,
                                      LAMBDA a : a.player.id = id))
          /\ (pc = "loop" /\ ~PeriodBuilt) =>
                 position_history' = position_history]_vars

\* after three periods a player with earlier entries has played twice or
\* more, and a player who has played has also sat a period out
C25_Witness ==
    /\ pc = "loop"
    /\ Len(lineups) = MaxPeriods
    /\ \E id \in IdsOf(players) :
           /\ Len(PositionsPlayed(id, Len(lineups))) >= 2
           /\ Len(DictGet(position_history, id, <<>>))
                  > Len(PositionsPlayed(id, Len(lineups)))
    /\ \E id \in IdsOf(players) :
           /\ PositionsPlayed(id, Len(lineups)) # <<>>
           /\ Len(PositionsPlayed(id, Len(lineups))) < Len(lineups)

\* the periods 1..k, ascending, whose lineup has the player at P
RECURSIVE PeriodsPitched(_, _)
PeriodsPitched(id, k) ==
    IF k = 0
    THEN <<>>
    ELSE PeriodsPitched(id, k - 1)
         \o (IF PitcherId(lineups[k]) = id THEN <<k>> ELSE <<>>)

\* C26: a player is an eligible pitcher of period k exactly when the player
\* can play P and k = 1 or the player did not pitch period k-1, so that the
\* pitcher of period k-2 is eligible again; pitcher_history holds period k
\* under the player assigned P in period k and under nobody else.
C26_EligibleUnlessPitchedLast ==
    (sport = "baseball" /\ pc = "loop") =>
        /\ \A id \in IdsOf(players) :
               DictGet(pitcher_history, id, <<>>) =
                   PeriodsPitched(id, Len(lineups))
        /\ DOMAIN pitcher_history =
               {PitcherId(lineups[k]) : k \in 1..Len(lineups)}
        /\ period <= num_periods(game_info) =>
               IdsOf(get_eligible_pitchers(players, pitcher_history, period)) =
                   {id \in PitcherIds :
                       period = 1 \/ PitcherId(lineups[period - 1]) # id}

\* the pitcher of period 1 rests in period 2 and pitches period 3
C26_Witness ==
    /\ sport = "baseball"
    /\ pc = "loop"
    /\ Len(lineups) = 3
    /\ PitcherId(lineups[3]) = PitcherId(lineups[1])
    /\ PitcherId(lineups[2]) # PitcherId(lineups[1])
    /\ pitcher_history[PitcherId(lineups[1])] = <<1, 3>>

\* the player has no assignment in lineup k
SatOut(id, k) ==
    \A i \in 1..Len(lineups[k].assignments) :
        lineups[k].assignments[i].player.id # id

\* C27: in both generators the must-play players handed to the assignment
\* engine for period k are none when k = 1, and otherwise exactly the
\* players whose bench_tracker is at least 2 at the start of period k, who
\* are the players that sat out both period k-1 and period k-2.
C27_MustPlayAfterTwoBenchPeriods ==
    pc = "loop" =>
        LET must == IdsOf(get_must_play_players(players, bench_tracker, period))
        IN /\ period = 1 => must = {}
           /\ period > 1 =>
                  must = {id \in IdsOf(players) : bench_tracker[id] >= 2}
           /\ must = {id \in IdsOf(players) :
                         /\ period >= 3
                         /\ SatOut(id, period - 1)
                         /\ SatOut(id, period - 2)}

\* the third period is about to be generated with a must-play player, who
\* sat out the first two
C27_Witness ==
    /\ pc = "loop"
    /\ period = 3
    /\ period <= IF sport = "baseball" THEN num_periods(game_info)
                                       ELSE num_sets(game_info)
    /\ \E i \in 1..Len(players) :
           /\ get_must_play_players(players, bench_tracker, period)
                  = <<players[i]>>
           /\ SatOut(players[i].id, 1)
           /\ SatOut(players[i].id, 2)

\* C29: every Player record in the assignments of a lineup returned by
\* BaseballLineupGenerator.generate equals, field by field, the input
\* record with the same id; the period's eligibility view is not visible.
C29_ReturnedRecordsAreInputRecords ==
    (sport = "baseball" /\ pc = "done") =>
        \A k \in 1..Len(returned) :
            \A i \in 1..Len(returned[k].assignments) :
                \E j \in 1..Len(players) :
                    /\ players[j].id = returned[k].assignments[i].player.id
                    /\ players[j] = returned[k].assignments[i].player

\* C30: every lineup BaseballLineupGenerator.generate returns passes the
\* generator's validate_lineup without an error: it has total_positions
\* assignments, P and C are assigned, no player id occurs twice, and each
\* assigned player record can play its position.
C30_ReturnedLineupsValidate ==
    (sport = "baseball" /\ pc = "done") =>
        \A k \in 1..Len(returned) :
            LET a == returned[k].assignments
            IN /\ validate_lineup(baseball_config, returned[k]) = <<>>
               /\ Len(a) = baseball_config.total_positions
               /\ {"P", "C"} \subseteq {a[i].position : i \in 1..Len(a)}
               /\ NoRepeats(PlayerIdsOf(a))
               /\ \A i \in 1..Len(a) :
                      \/ a[i].player.position_preferences = <<>>
                      \/ InList(a[i].position, a[i].player.position_preferences)

\* three lineups are returned, one of them with a player at a position that
\* is not among the preferences of the player's input record
C30_Witness ==
    /\ sport = "baseball"
    /\ pc = "done"
    /\ Len(returned) = MaxPeriods
    /\ \E k \in 1..Len(returned) :
           \E i \in 1..Len(returned[k].assignments) :
               \E j \in 1..Len(players) :
                   /\ players[j].id = returned[k].assignments[i].player.id
                   /\ ~can_play_position(players[j],
                                         returned[k].assignments[i].position)

---------------------------------------------------------------------------
(* Two generate() calls on one generator instance, period steps interleaved. *)

TwoCalls == {1, 2}

\* variant: both calls keep their tracking dictionaries in one place
frame_shared(c) == 1

\* where a call's position_history, pitcher_history and bench_tracker live:
\* they are locals of the call's own generate() frame
frame_of(c) == c

Tracking(history, pitchers, bench) ==
    [position_history |-> history, pitcher_history |-> pitchers,
     bench_tracker |-> bench]

NewCall(ps, gi, history) ==
    [players |-> ps, game_info |-> gi, player_history |-> history,
     lineups |-> <<>>, period |-> 0, pc |-> "start", error |-> "",
     returned |-> <<>>]

raise(call, tracking, kind) ==
    [call |-> [call EXCEPT !.pc = "error", !.error = kind],
     tracking |-> tracking]

\* generate() up to the loop
start_step(config, call, tracking) ==
    IF validate_game_info(call.game_info) # <<>>
    THEN raise(call, tracking, "invalid_game_info")
    ELSE IF validate_players(config, call.players) # <<>>
    THEN raise(call, tracking, "invalid_players")
    ELSE [call |-> [call EXCEPT !.pc = "loop", !.period = 1, !.lineups = <<>>],
          tracking |->
              Tracking(call.player_history, EmptyDict,
                       [id \in {call.players[i].id : i \in 1..Len(call.players)}
                           |-> 0])]

\* the rest of a loop iteration of BaseballLineupGenerator.generate, r being
\* what _generate_period_lineup returned or raised
after_period(call, tracking, r) ==
    IF ~r.ok
    THEN raise(call, tracking, r.error)
    ELSE [call |-> [call EXCEPT !.lineups = Append(@, r.lineup),
                                !.period = @ + 1],
          tracking |->
              Tracking(track_player_position_history(r.lineup.assignments,
                                                     tracking.position_history),
                       update_pitcher_history(r.lineup.assignments, call.period,
                                              tracking.pitcher_history),
                       update_bench_tracker(r.lineup.assignments, call.players,
                                            tracking.bench_tracker))]

\* the rest of a loop iteration of VolleyballLineupGenerator.generate, r being
\* what _generate_set_lineup returned or raised
after_set(call, tracking, r) ==
    IF ~r.ok
    THEN raise(call, tracking, r.error)
    ELSE [call |-> [call EXCEPT
                        !.lineups = Append(@, Lineup(call.period, r.assignments,
                                                     r.bench_players)),
                        !.period = @ + 1],
          tracking |->
              Tracking(r.history, tracking.pitcher_history,
                       update_set_bench_tracker(r.bench_players, call.players,
                                                tracking.bench_tracker))]

\* one iteration of the loop of generate()
period_step(sport_id, call, tracking) ==
    IF sport_id = "baseball"
    THEN CHOOSE x \in {after_period(call, tracking, r) :
                          r \in {generate_period_lineup(
                                     call.period, call.players,
                                     tracking.position_history,
                                     tracking.pitcher_history,
                                     tracking.bench_tracker)}} : TRUE
    ELSE CHOOSE x \in {after_set(call, tracking, r) :
                          r \in {generate_set_lineup(
                                     call.players,
                                     get_must_play_players(
                                         call.players, tracking.bench_tracker,
                                         call.period),
                                     tracking.position_history)}} : TRUE

\* return lineups
return_step(call, tracking) ==
    [call |-> [call EXCEPT !.pc = "done", !.returned = call.lineups],
     tracking |-> tracking]

period_count(sport_id, gi) ==
    IF sport_id = "baseball" THEN num_periods(gi) ELSE num_sets(gi)

TwoStart(c) ==
    /\ calls[c].pc = "start"
    /\ \E r \in {start_step(instance.config, calls[c], store[frame_of(c)])} :
           /\ calls' = [calls EXCEPT ![c] = r.call]
           /\ store' = [store EXCEPT ![frame_of(c)] = r.tracking]
    /\ UNCHANGED instance

TwoPeriod(c) ==
    /\ calls[c].pc = "loop"
    /\ calls[c].period <= period_count(instance.sport, calls[c].game_info)
    /\ \E r \in {period_step(instance.sport, calls[c], store[frame_of(c)])} :
           /\ calls' = [calls EXCEPT ![c] = r.call]
           /\ store' = [store EXCEPT ![frame_of(c)] = r.tracking]
    /\ UNCHANGED instance

TwoReturn(c) ==
    /\ calls[c].pc = "loop"
    /\ calls[c].period > period_count(instance.sport, calls[c].game_info)
    /\ \E r \in {return_step(calls[c], store[frame_of(c)])} :
           /\ calls' = [calls EXCEPT ![c] = r.call]
           /\ store' = [store EXCEPT ![frame_of(c)] = r.tracking]
    /\ UNCHANGED instance

\* ten-player baseball rosters: two pitchers without preferences, three
\* players sharing P and C, and a single pitcher
TwoBaseballRosters ==
    {BaseballRoster(10, <<<<>>, <<>>, <<"P">>>>, <<>>),
     BaseballRoster(10, <<<<"P">>, <<"P", "C">>, <<"C", "1B">>>>, <<"C">>),
     BaseballRoster(10, <<<<"P">>, <<"C">>, <<"C", "1B">>>>, <<"C">>)}

TwoVolleyballRosters ==
    {VolleyballRoster(7, <<<<>>, <<>>>>, <<>>),
     VolleyballRoster(7, <<<<"S">>, <<"OH">>>>, <<"S">>),
     VolleyballRoster(7, <<<<"S">>, <<>>>>, <<>>)}

TwoGameInfos(count_key) ==
    {WithKeys({"game_id"}), WithKeys({"game_id", "team_id"}),
     DictSet(WithKeys({"game_id", "team_id"}), count_key, 1)}

TwoArguments(sport_id) ==
    IF sport_id = "baseball"
    THEN {NewCall(ps, gi, h) : ps \in TwoBaseballRosters,
                               gi \in TwoGameInfos("num_periods"),
                               h \in BaseballHistories}
    ELSE {NewCall(ps, gi, h) : ps \in TwoVolleyballRosters,
                               gi \in TwoGameInfos("num_sets"),
                               h \in VolleyballHistories}

TwoInit ==
    /\ NoCall
    /\ NoUtilCall
    /\ NoFactoryCall
    /\ instance \in {[sport |-> "baseball", config |-> baseball_config],
                     [sport |-> "volleyball", config |-> volleyball_config]}
    /\ calls \in [TwoCalls -> TwoArguments(instance.sport)]
    /\ store = [f \in TwoCalls |-> Tracking(EmptyDict, EmptyDict, EmptyDict)]

TwoNext ==
    \/ \E c \in TwoCalls :
           TwoStart(c) /\ UNCHANGED <<gen_vars, util_vars, fac_vars>>
    \/ \E c \in TwoCalls :
           TwoPeriod(c) /\ UNCHANGED <<gen_vars, util_vars, fac_vars>>
    \/ \E c \in TwoCalls :
           TwoReturn(c) /\ UNCHANGED <<gen_vars, util_vars, fac_vars>>

SpecTwo == TwoInit /\ [][TwoNext]_vars

\* the call run from its arguments to its end with tracking dictionaries of
\* its own and no other call in between
RECURSIVE run_alone(_, _, _)
run_alone(inst, call, tracking) ==
    IF call.pc \in {"done", "error"}
    THEN call
    ELSE LET r == IF call.pc = "start"
                  THEN start_step(inst.config, call, tracking)
                  ELSE IF call.period <= period_count(inst.sport, call.game_info)
                  THEN period_step(inst.sport, call, tracking)
                  ELSE return_step(call, tracking)
         IN run_alone(inst, r.call, r.tracking)

Outcome(call) ==
    [pc |-> call.pc, error |-> call.error, lineups |-> call.lineups,
     returned |-> call.returned]

\* C28: two generate calls on one generator instance, with separate
\* argument objects and their period steps interleaved in any order, each
\* end as the same call does when it runs alone: the same lineups are
\* returned, or the same error is raised in the same period.
C28_InterleavedCallsRunAsAlone ==
    \A c \in DOMAIN calls :
        calls[c].pc \in {"done", "error"} =>
            Outcome(calls[c]) =
                Outcome(run_alone(instance,
                                  NewCall(calls[c].players, calls[c].game_info,
                                          calls[c].player_history),
                                  Tracking(EmptyDict, EmptyDict, EmptyDict)))

\* the first call has returned three lineups while the second, started
\* with another roster, has generated two periods and holds tracking
\* dictionaries of its own
C28_Witness ==
    /\ DOMAIN calls = TwoCalls
    /\ calls[1].pc = "done"
    /\ Len(calls[1].returned) = 3
    /\ calls[2].pc = "loop"
    /\ Len(calls[2].lineups) = 2
    /\ calls[1].players # calls[2].players
    /\ calls[1].returned[2] # calls[2].lineups[2]
    /\ store[frame_of(1)].bench_tracker # store[frame_of(2)].bench_tracker

===========================================================================
